---------------------------- MODULE Spec2Model ----------------------------
(***************************************************************************)
(* Model of the action-resolution engine of borg_the_spire, of its         *)
(* Distribution arithmetic and damage pipeline (src/src/simulation.rs)     *)
(* and of the snapshot ingestion (src/src/simulation_state.rs).            *)
(*                                                                         *)
(* Vec is modelled as a sequence whose last element is the top (push =     *)
(* Append, pop = remove last); VecDeque `actions` is a sequence whose head *)
(* is the front.  Queues hold action instances, represented by their index *)
(* into `acts`, the table of every action handed to the engine.            *)
(***************************************************************************)
EXTENDS Integers, Sequences, FiniteSets, TLC

VARIABLES
  hitpoints,              \* CombatState.player.creature.hitpoints
  monsters,               \* CombatState.monsters: seq of [gone, innate_damage_amount]
  fresh_subaction_queue,  \* CombatState.fresh_subaction_queue (Vec)
  stale_subaction_stack,  \* CombatState.stale_subaction_stack (Vec)
  actions,                \* CombatState.actions (VecDeque)
  allow_random,           \* Runner.allow_random
  acts,                   \* every action instance created so far
  pc,                     \* position of the single thread of control
  arg,                    \* the action passed to action_now / apply_impl
  inLoop,                 \* run_until_unable is on the call stack
  stack,                  \* execute / execute_random frames, innermost last
  log,                    \* history: the actions applied, in order
  popped,                 \* history: instances run_until_unable took from `actions`
  hand,                   \* CombatState.hand: seq of SingleCard
  energy,                 \* CombatState.player.energy
  powers,                 \* CombatState.player.creature.powers: seq of PowerId
  choices,                \* the last result of legal_choices()
  have,                   \* the caller holds a CombatState to pass as `previous`
  observed,               \* the snapshot last given to from_communication_mod
  first,                  \* history: a first combat snapshot has been ingested
  omitted,                \* history: <<position, damage>> the first snapshot
                          \* reported, every later one reporting none there
  then_value,             \* a Distribution: left operand of +, `then` of split
  else_value,             \* a Distribution: right operand of +, `else` of split
  probability,            \* the probability given to split, in 1/Scale
  merged,                 \* Option: the result of then_value + else_value
  mixed,                  \* Option: the result of split
  info,                   \* a DamageInfo: [base, output]
  owner_powers,           \* powers of the creature dealing the damage
  target_powers,          \* powers of the creature receiving the damage
  applications            \* history: calls of apply_powers so far

engine == <<fresh_subaction_queue, stale_subaction_stack, actions, allow_random,
            acts, pc, arg, inLoop, stack, log, popped>>
cards == <<hand, energy, powers, choices>>
ingestion == <<have, observed, first, omitted>>
distributions == <<then_value, else_value, probability, merged, mixed>>
damages == <<info, owner_powers, target_powers, applications>>
numeric == <<distributions, damages>>

vars == <<hitpoints, monsters, engine, cards, ingestion, numeric>>

(***************************************************************************)
(* Bounds of the model.                                                    *)
(***************************************************************************)
MaxHanded == 2      \* actions the caller hands to the engine
MaxMonsters == 2    \* monsters in the initial combat state
StartHp == 2        \* player's hitpoints in the initial combat state

\* Option<T>: None, or Some(x)
None == << >>
Some(x) == <<x>>

(***************************************************************************)
(* Distribution: a sequence of <<weight, value>> pairs.                    *)
(***************************************************************************)
\* Distribution::new
DistributionNew == << >>

(***************************************************************************)
(* CombatState::combat_over                                                *)
(***************************************************************************)
combat_over_any(hp, ms) ==
  hp <= 0 \/ \E i \in 1..Len(ms) : ms[i].gone

combat_over(hp, ms) ==
  hp <= 0 \/ \A i \in 1..Len(ms) : ms[i].gone

(***************************************************************************)
(* The action vocabulary.  The concrete actions live in crate::actions;    *)
(* here a small closed vocabulary stands for them.  An action reports its  *)
(* determinism from the state and, when executed, runs a script of calls   *)
(* on the Runner: action_now, action_top, action_bottom, and mutations of  *)
(* the combat state.                                                       *)
(***************************************************************************)
Kinds == {"A", "X", "Y", "B", "T", "R", "D", "C", "E", "W"}

Now(k) == [op |-> "now", k |-> k, m |-> 0]
Top(k) == [op |-> "top", k |-> k, m |-> 0]
Bottom(k) == [op |-> "bottom", k |-> k, m |-> 0]
Hurt == [op |-> "hurt", k |-> "B", m |-> 0]
Kill(m) == [op |-> "kill", k |-> "B", m |-> m]

Live(ms) == {i \in 1..Len(ms) : ~ms[i].gone}

RECURSIVE LiveDistribution(_, _)
\* one outcome per monster that is not gone, weighted by position
LiveDistribution(ms, i) ==
  IF i > Len(ms) THEN DistributionNew
  ELSE IF ms[i].gone THEN LiveDistribution(ms, i + 1)
       ELSE << <<i, i>> >> \o LiveDistribution(ms, i + 1)

Deterministic == [tag |-> "Deterministic", dist |-> << >>]
Random(d) == [tag |-> "Random", dist |-> d]
Choice == [tag |-> "Choice", dist |-> << >>]

\* Action::determinism(&self, state)
determinism(k, ms) ==
  CASE k = "R" -> Random(LiveDistribution(ms, 1))
    [] k = "D" -> Random(<< <<1, 1>>, <<3, 2>> >>)
    [] k = "E" -> Random(DistributionNew)
    [] k = "W" -> Random(<< <<0, 1>> >>)
    [] k = "C" -> Choice
    [] OTHER -> Deterministic

\* Action::execute (value 0) and Action::execute_random(value)
script(k, value) ==
  CASE k = "A" -> <<Now("X"), Now("Y")>>
    [] k = "X" -> <<Now("R"), Now("B"), Kill(2)>>
    [] k = "Y" -> <<Bottom("B")>>
    [] k = "T" -> <<Top("B"), Kill(1), Now("D")>>
    [] k = "R" -> IF value = 1 THEN <<Hurt>> ELSE <<Kill(value)>>
    [] k = "D" -> IF value = 1 THEN <<Hurt, Hurt, Now("E")>> ELSE <<Now("B")>>
    [] OTHER -> << >>

\* what the caller hands to the engine
CallerNow == {"A", "C", "W"}
CallerTop == {"T"}
CallerBottom == {"A", "B", "D"}

(***************************************************************************)
(* Runner::can_apply_impl, Runner::can_apply                               *)
(***************************************************************************)
can_apply_impl_atleast(k, ms, ar) ==
  LET d == determinism(k, ms) IN
  CASE d.tag = "Deterministic" -> TRUE
    [] d.tag = "Random" -> ar \/ Len(d.dist) >= 1
    [] d.tag = "Choice" -> FALSE

can_apply_impl_choice(k, ms, ar) ==
  LET d == determinism(k, ms) IN
  CASE d.tag = "Deterministic" -> TRUE
    [] d.tag = "Random" -> ar \/ Len(d.dist) = 1
    [] d.tag = "Choice" -> TRUE

can_apply_impl(k, ms, ar) ==
  LET d == determinism(k, ms) IN
  CASE d.tag = "Deterministic" -> TRUE
    [] d.tag = "Random" -> ar \/ Len(d.dist) = 1
    [] d.tag = "Choice" -> FALSE

can_apply_ignoring_over(k, hp, ms, ar) == can_apply_impl(k, ms, ar)

can_apply(k, hp, ms, ar) ==
  can_apply_impl(k, ms, ar) /\ ~combat_over(hp, ms)

(***************************************************************************)
(* choose_weighted: the values the weighted choice can return.  An empty   *)
(* slice or a slice whose weights are all zero is an error, which          *)
(* apply_impl unwraps.                                                     *)
(***************************************************************************)
Sampled(dist) == {dist[i][2] : i \in {j \in 1..Len(dist) : dist[j][1] > 0}}

(***************************************************************************)
(* run_until_unable, lines 255-257: move the fresh queue onto the stale    *)
(* stack, last pushed first.                                               *)
(***************************************************************************)
Front(s) == SubSeq(s, 1, Len(s) - 1)
Last(s) == s[Len(s)]

DrainKeepingOrder(f, s) == [fresh |-> << >>, stale |-> s \o f]

DrainClearing(f, s) == [fresh |-> << >>, stale |-> s]

DrainNothing(f, s) == [fresh |-> f, stale |-> s]

RECURSIVE Drain(_, _)
Drain(f, s) ==
  IF f = << >> THEN [fresh |-> f, stale |-> s]
  ELSE Drain(Front(f), Append(s, Last(f)))

(***************************************************************************)
(* VecDeque::push_front / push_back on `actions` (action_top,              *)
(* action_bottom), and the test of action_now.                             *)
(***************************************************************************)
push_front_as_back(q, a) == Append(q, a)

push_front(q, a) == <<a>> \o q

push_back_as_front(q, a) == <<a>> \o q

push_back(q, a) == Append(q, a)

action_now_ignoring_queue(k, f, hp, ms, ar) == can_apply(k, hp, ms, ar)

action_now_applies(k, f, hp, ms, ar) ==
  f = << >> /\ can_apply(k, hp, ms, ar)

(***************************************************************************)
(* Initial state: a combat state with empty queues and a fresh Runner.     *)
(***************************************************************************)
EngineIdle ==
  /\ fresh_subaction_queue = << >>
  /\ stale_subaction_stack = << >>
  /\ actions = << >>
  /\ acts = << >>
  /\ pc = "idle"
  /\ arg = 0
  /\ inLoop = FALSE
  /\ stack = << >>
  /\ log = << >>
  /\ popped = << >>

InitEngine ==
  /\ hitpoints = StartHp
  /\ \E n \in 0..MaxMonsters :
       monsters = [i \in 1..n |-> [gone |-> FALSE, innate_damage_amount |-> None]]
  /\ allow_random \in BOOLEAN
  /\ EngineIdle

NoCards ==
  /\ hand = << >>
  /\ energy = 0
  /\ powers = << >>
  /\ choices = << >>

NoIngestion ==
  /\ have = TRUE
  /\ observed = [combat_state |-> None]
  /\ first = FALSE
  /\ omitted = {}

NoDistributions ==
  /\ then_value = DistributionNew
  /\ else_value = DistributionNew
  /\ probability = 0
  /\ merged = None
  /\ mixed = None

NoDamage ==
  /\ info = [base |-> 0, output |-> 0]
  /\ owner_powers = << >>
  /\ target_powers = << >>
  /\ applications = 0

NoNumeric == NoDistributions /\ NoDamage

Init == InitEngine /\ NoCards /\ NoIngestion /\ NoNumeric

Handed == Cardinality({i \in 1..Len(acts) : acts[i].parent = 0})

NewAct(k, parent, how, ahead) ==
  [kind |-> k, parent |-> parent, how |-> how, ahead |-> ahead]

\* where control goes when action_now returns
ReturnSite == IF stack # << >> THEN "exec" ELSE IF inLoop THEN "loop" ELSE "idle"

(***************************************************************************)
(* The caller's calls on the Runner.                                       *)
(***************************************************************************)
CallActionNow ==
  /\ pc = "idle" /\ Handed < MaxHanded
  /\ \E k \in CallerNow :
       /\ acts' = Append(acts, NewAct(k, 0, "now", << >>))
       /\ arg' = Len(acts) + 1
  /\ pc' = "action_now"
  /\ UNCHANGED <<hitpoints, monsters, fresh_subaction_queue, stale_subaction_stack,
                 actions, allow_random, inLoop, stack, log, popped>>
  /\ UNCHANGED <<cards, ingestion, numeric>>

\* Runner::action_top
action_top ==
  /\ pc = "idle" /\ Handed < MaxHanded
  /\ \E k \in CallerTop :
       /\ acts' = Append(acts, NewAct(k, 0, "top", actions))
       /\ actions' = push_front(actions, Len(acts) + 1)
  /\ UNCHANGED <<hitpoints, monsters, fresh_subaction_queue, stale_subaction_stack,
                 allow_random, pc, arg, inLoop, stack, log, popped>>
  /\ UNCHANGED <<cards, ingestion, numeric>>

\* Runner::action_bottom
action_bottom ==
  /\ pc = "idle" /\ Handed < MaxHanded
  /\ \E k \in CallerBottom :
       /\ acts' = Append(acts, NewAct(k, 0, "bottom", actions))
       /\ actions' = push_back(actions, Len(acts) + 1)
  /\ UNCHANGED <<hitpoints, monsters, fresh_subaction_queue, stale_subaction_stack,
                 allow_random, pc, arg, inLoop, stack, log, popped>>
  /\ UNCHANGED <<cards, ingestion, numeric>>

CallRunUntilUnable ==
  /\ pc = "idle"
  /\ fresh_subaction_queue # << >> \/ stale_subaction_stack # << >> \/ actions # << >>
  /\ pc' = "loop"
  /\ inLoop' = TRUE
  /\ UNCHANGED <<hitpoints, monsters, fresh_subaction_queue, stale_subaction_stack,
                 actions, allow_random, acts, arg, stack, log, popped>>
  /\ UNCHANGED <<cards, ingestion, numeric>>

(***************************************************************************)
(* Runner::action_now                                                      *)
(***************************************************************************)
ActionNowApply ==
  /\ pc = "action_now"
  /\ action_now_applies(acts[arg].kind, fresh_subaction_queue, hitpoints, monsters,
                        allow_random)
  /\ pc' = "apply_impl"
  /\ UNCHANGED <<hitpoints, monsters, fresh_subaction_queue, stale_subaction_stack,
                 actions, allow_random, acts, arg, inLoop, stack, log, popped>>
  /\ UNCHANGED <<cards, ingestion, numeric>>

ActionNowDefer ==
  /\ pc = "action_now"
  /\ ~action_now_applies(acts[arg].kind, fresh_subaction_queue, hitpoints, monsters,
                         allow_random)
  /\ fresh_subaction_queue' = Append(fresh_subaction_queue, arg)
  /\ pc' = ReturnSite
  /\ arg' = 0
  /\ UNCHANGED <<hitpoints, monsters, stale_subaction_stack, actions, allow_random,
                 acts, inLoop, stack, log, popped>>
  /\ UNCHANGED <<cards, ingestion, numeric>>

(***************************************************************************)
(* Runner::apply_impl                                                      *)
(***************************************************************************)
Applied(id, d, value) ==
  [id |-> id, det |-> d, value |-> value, ar |-> allow_random,
   inline |-> stack # << >>]

ApplyDeterministic ==
  /\ pc = "apply_impl"
  /\ LET d == determinism(acts[arg].kind, monsters) IN
       /\ d.tag = "Deterministic"
       /\ log' = Append(log, Applied(arg, d, 0))
       /\ stack' = Append(stack, [id |-> arg, value |-> 0, pos |-> 1])
  /\ pc' = "exec"
  /\ arg' = 0
  /\ UNCHANGED <<hitpoints, monsters, fresh_subaction_queue, stale_subaction_stack,
                 actions, allow_random, acts, inLoop, popped>>
  /\ UNCHANGED <<cards, ingestion, numeric>>

ApplyRandom ==
  /\ pc = "apply_impl"
  /\ LET d == determinism(acts[arg].kind, monsters) IN
       /\ d.tag = "Random"
       /\ \E value \in Sampled(d.dist) :
            /\ log' = Append(log, Applied(arg, d, value))
            /\ stack' = Append(stack, [id |-> arg, value |-> value, pos |-> 1])
  /\ pc' = "exec"
  /\ arg' = 0
  /\ UNCHANGED <<hitpoints, monsters, fresh_subaction_queue, stale_subaction_stack,
                 actions, allow_random, acts, inLoop, popped>>
  /\ UNCHANGED <<cards, ingestion, numeric>>

\* choose_weighted(..).unwrap() on an error, or unreachable!() for a Choice
ApplyAbort ==
  /\ pc = "apply_impl"
  /\ LET d == determinism(acts[arg].kind, monsters) IN
       \/ d.tag = "Random" /\ Sampled(d.dist) = {}
       \/ d.tag = "Choice"
  /\ pc' = "panic"
  /\ UNCHANGED <<hitpoints, monsters, fresh_subaction_queue, stale_subaction_stack,
                 actions, allow_random, acts, arg, inLoop, stack, log, popped>>
  /\ UNCHANGED <<cards, ingestion, numeric>>

(***************************************************************************)
(* Action::execute / execute_random: one call of the script per step.      *)
(***************************************************************************)
TopFrame == stack[Len(stack)]
TopScript == script(acts[TopFrame.id].kind, TopFrame.value)
Advance == [stack EXCEPT ![Len(stack)].pos = @ + 1]

ExecActionNow ==
  /\ pc = "exec" /\ TopFrame.pos <= Len(TopScript)
  /\ LET o == TopScript[TopFrame.pos] IN
       /\ o.op = "now"
       /\ acts' = Append(acts, NewAct(o.k, TopFrame.id, "now", << >>))
       /\ arg' = Len(acts) + 1
  /\ stack' = Advance
  /\ pc' = "action_now"
  /\ UNCHANGED <<hitpoints, monsters, fresh_subaction_queue, stale_subaction_stack,
                 actions, allow_random, inLoop, log, popped>>
  /\ UNCHANGED <<cards, ingestion, numeric>>

ExecActionTop ==
  /\ pc = "exec" /\ TopFrame.pos <= Len(TopScript)
  /\ LET o == TopScript[TopFrame.pos] IN
       /\ o.op = "top"
       /\ acts' = Append(acts, NewAct(o.k, TopFrame.id, "top", actions))
       /\ actions' = push_front(actions, Len(acts) + 1)
  /\ stack' = Advance
  /\ UNCHANGED <<hitpoints, monsters, fresh_subaction_queue, stale_subaction_stack,
                 allow_random, pc, arg, inLoop, log, popped>>
  /\ UNCHANGED <<cards, ingestion, numeric>>

ExecActionBottom ==
  /\ pc = "exec" /\ TopFrame.pos <= Len(TopScript)
  /\ LET o == TopScript[TopFrame.pos] IN
       /\ o.op = "bottom"
       /\ acts' = Append(acts, NewAct(o.k, TopFrame.id, "bottom", actions))
       /\ actions' = push_back(actions, Len(acts) + 1)
  /\ stack' = Advance
  /\ UNCHANGED <<hitpoints, monsters, fresh_subaction_queue, stale_subaction_stack,
                 allow_random, pc, arg, inLoop, log, popped>>
  /\ UNCHANGED <<cards, ingestion, numeric>>

ExecHurt ==
  /\ pc = "exec" /\ TopFrame.pos <= Len(TopScript)
  /\ TopScript[TopFrame.pos].op = "hurt"
  /\ hitpoints' = hitpoints - 1
  /\ stack' = Advance
  /\ UNCHANGED <<monsters, fresh_subaction_queue, stale_subaction_stack, actions,
                 allow_random, acts, pc, arg, inLoop, log, popped>>
  /\ UNCHANGED <<cards, ingestion, numeric>>

ExecKill ==
  /\ pc = "exec" /\ TopFrame.pos <= Len(TopScript)
  /\ LET o == TopScript[TopFrame.pos] IN
       /\ o.op = "kill"
       /\ monsters' = IF o.m \in 1..Len(monsters)
                        THEN [monsters EXCEPT ![o.m].gone = TRUE]
                        ELSE monsters
  /\ stack' = Advance
  /\ UNCHANGED <<hitpoints, fresh_subaction_queue, stale_subaction_stack, actions,
                 allow_random, acts, pc, arg, inLoop, log, popped>>
  /\ UNCHANGED <<cards, ingestion, numeric>>

ExecReturn ==
  /\ pc = "exec" /\ TopFrame.pos > Len(TopScript)
  /\ stack' = Front(stack)
  /\ pc' = IF Len(stack) > 1 THEN "exec" ELSE IF inLoop THEN "loop" ELSE "idle"
  /\ UNCHANGED <<hitpoints, monsters, fresh_subaction_queue, stale_subaction_stack,
                 actions, allow_random, acts, arg, inLoop, log, popped>>
  /\ UNCHANGED <<cards, ingestion, numeric>>

(***************************************************************************)
(* run_until_unable: one pass of the loop, up to its call of action_now or *)
(* its break.                                                              *)
(***************************************************************************)
Drained == Drain(fresh_subaction_queue, stale_subaction_stack)
Pending == Drained.stale

LoopCombatOver ==
  /\ pc = "loop"
  /\ combat_over(hitpoints, monsters)
  /\ pc' = "idle"
  /\ inLoop' = FALSE
  /\ UNCHANGED <<hitpoints, monsters, fresh_subaction_queue, stale_subaction_stack,
                 actions, allow_random, acts, arg, stack, log, popped>>
  /\ UNCHANGED <<cards, ingestion, numeric>>

LoopStale ==
  /\ pc = "loop"
  /\ ~combat_over(hitpoints, monsters)
  /\ Pending # << >>
  /\ can_apply(acts[Last(Pending)].kind, hitpoints, monsters, allow_random)
  /\ fresh_subaction_queue' = Drained.fresh
  /\ stale_subaction_stack' = Front(Pending)
  /\ arg' = Last(Pending)
  /\ pc' = "action_now"
  /\ UNCHANGED <<hitpoints, monsters, actions, allow_random, acts, inLoop, stack,
                 log, popped>>
  /\ UNCHANGED <<cards, ingestion, numeric>>

LoopBlockedRetrying ==
  /\ pc = "loop"
  /\ ~combat_over(hitpoints, monsters)
  /\ Pending # << >>
  /\ ~can_apply(acts[Last(Pending)].kind, hitpoints, monsters, allow_random)
  /\ fresh_subaction_queue' = Drained.fresh
  /\ stale_subaction_stack' = Pending
  /\ UNCHANGED <<hitpoints, monsters, actions, allow_random, acts, pc, arg, inLoop,
                 stack, log, popped>>
  /\ UNCHANGED <<cards, ingestion, numeric>>

LoopBlocked ==
  /\ pc = "loop"
  /\ ~combat_over(hitpoints, monsters)
  /\ Pending # << >>
  /\ ~can_apply(acts[Last(Pending)].kind, hitpoints, monsters, allow_random)
  /\ fresh_subaction_queue' = Drained.fresh
  /\ stale_subaction_stack' = Pending
  /\ pc' = "idle"
  /\ inLoop' = FALSE
  /\ UNCHANGED <<hitpoints, monsters, actions, allow_random, acts, arg, stack,
                 log, popped>>
  /\ UNCHANGED <<cards, ingestion, numeric>>

LoopTopLevel ==
  /\ pc = "loop"
  /\ ~combat_over(hitpoints, monsters)
  /\ Pending = << >>
  /\ actions # << >>
  /\ fresh_subaction_queue' = Drained.fresh
  /\ stale_subaction_stack' = Pending
  /\ actions' = Tail(actions)
  /\ popped' = Append(popped, [id |-> Head(actions), at |-> Len(log),
                               made |-> Len(acts),
                               fresh |-> Len(Drained.fresh),
                               stale |-> Len(Pending)])
  /\ arg' = Head(actions)
  /\ pc' = "action_now"
  /\ UNCHANGED <<hitpoints, monsters, allow_random, acts, inLoop, stack, log>>
  /\ UNCHANGED <<cards, ingestion, numeric>>

LoopEmpty ==
  /\ pc = "loop"
  /\ ~combat_over(hitpoints, monsters)
  /\ Pending = << >>
  /\ actions = << >>
  /\ fresh_subaction_queue' = Drained.fresh
  /\ stale_subaction_stack' = Pending
  /\ pc' = "idle"
  /\ inLoop' = FALSE
  /\ UNCHANGED <<hitpoints, monsters, actions, allow_random, acts, arg, stack,
                 log, popped>>
  /\ UNCHANGED <<cards, ingestion, numeric>>

Next ==
  \/ CallActionNow
  \/ action_top
  \/ action_bottom
  \/ CallRunUntilUnable
  \/ ActionNowApply
  \/ ActionNowDefer
  \/ ApplyDeterministic
  \/ ApplyRandom
  \/ ApplyAbort
  \/ ExecActionNow
  \/ ExecActionTop
  \/ ExecActionBottom
  \/ ExecHurt
  \/ ExecKill
  \/ ExecReturn
  \/ LoopCombatOver
  \/ LoopStale
  \/ LoopBlocked
  \/ LoopTopLevel
  \/ LoopEmpty

Spec == Init /\ [][Next]_vars

(***************************************************************************)
(* The engine runs on the caller's thread: once a call is made, the code   *)
(* goes on until it returns or aborts.  Only the caller's next call may    *)
(* never come.                                                             *)
(***************************************************************************)
Running ==
  \/ ActionNowApply
  \/ ActionNowDefer
  \/ ApplyDeterministic
  \/ ApplyRandom
  \/ ApplyAbort
  \/ ExecActionNow
  \/ ExecActionTop
  \/ ExecActionBottom
  \/ ExecHurt
  \/ ExecKill
  \/ ExecReturn
  \/ LoopCombatOver
  \/ LoopStale
  \/ LoopBlocked
  \/ LoopTopLevel
  \/ LoopEmpty

SpecRunning == Init /\ [][Next]_vars /\ WF_vars(Running)

(***************************************************************************)
(* Cards.  A SingleCard is compared by value (derived PartialEq): its cost *)
(* and upgrades and the CardInfo of its id.  The card identities and their *)
(* playability hooks live in simulation_state::cards; a small set stands   *)
(* for them here.                                                          *)
(***************************************************************************)
X_COST == -1
UNPLAYABLE == -2

MaxHand == 3        \* cards in hand

Card(id, cost) == [id |-> id, cost |-> cost]

\* CardInfo::from(CardId): card_type and has_target of each identity
CardInfoOf(id) ==
  CASE id = "Strike" -> [card_type |-> "Attack", has_target |-> TRUE]
    [] id = "Clash" -> [card_type |-> "Attack", has_target |-> TRUE]
    [] id = "Whirlwind" -> [card_type |-> "Attack", has_target |-> FALSE]
    [] id = "Defend" -> [card_type |-> "Skill", has_target |-> FALSE]
    [] OTHER -> [card_type |-> "Curse", has_target |-> FALSE]

CardPool ==
  {Card("Strike", 1), Card("Strike", 2), Card("Clash", 0), Card("Defend", 1),
   Card("Whirlwind", X_COST), Card("Injury", UNPLAYABLE)}

Energies == {0, 1, 2}

PowerLists == {<< >>, <<"Entangled">>, <<"Strength", "Entangled">>, <<"Strength">>}

\* Creature::has_power
has_power(ps, power_id) == \E i \in 1..Len(ps) : ps[i] = power_id

\* CardBehavior::playable, the identity's own hook: Clash needs a hand of
\* Attack cards only, every other card agrees
playable(id, h) ==
  id = "Clash" => \A i \in 1..Len(h) : CardInfoOf(h[i].id).card_type = "Attack"

card_playable_any_cost(card, h, e, ps) ==
  /\ e >= card.cost
  /\ playable(card.id, h)
  /\ ~(CardInfoOf(card.id).card_type = "Attack" /\ has_power(ps, "Entangled"))

\* CombatState::card_playable
card_playable(card, h, e, ps) ==
  /\ card.cost >= -1
  /\ e >= card.cost
  /\ playable(card.id, h)
  /\ ~(CardInfoOf(card.id).card_type = "Attack" /\ has_power(ps, "Entangled"))

EndTurn == [tag |-> "EndTurn", card |-> [id |-> "", cost |-> 0], target |-> 0]
PlayCard(card, target) == [tag |-> "PlayCard", card |-> card, target |-> target]

RECURSIVE TargetChoices(_, _, _)
\* lines 332-342: one PlayCard per monster that is not gone; monster_index
\* counts from 0
TargetChoices(card, ms, i) ==
  IF i > Len(ms) THEN << >>
  ELSE (IF ~ms[i].gone THEN <<PlayCard(card, i - 1)>> ELSE << >>)
         \o TargetChoices(card, ms, i + 1)

first_of_its_value_or_any(h, index) == TRUE

\* lines 326-328: no earlier card of the hand equals this one
first_of_its_value(h, index) == \A j \in 1..(index - 1) : h[j] # h[index]

RECURSIVE HandChoices(_, _, _, _, _)
\* lines 325-353: the loop over the hand, from position index on
HandChoices(h, e, ps, ms, index) ==
  IF index > Len(h) THEN << >>
  ELSE (IF first_of_its_value(h, index) /\ card_playable(h[index], h, e, ps)
        THEN (IF CardInfoOf(h[index].id).has_target
              THEN TargetChoices(h[index], ms, 1)
              ELSE <<PlayCard(h[index], 0)>>)
        ELSE << >>)
         \o HandChoices(h, e, ps, ms, index + 1)

\* CombatState::legal_choices
legal_choices(h, e, ps, ms) == <<EndTurn>> \o HandChoices(h, e, ps, ms, 1)

RECURSIVE Hands(_)
Hands(n) ==
  IF n = 0 THEN {<< >>}
  ELSE Hands(n - 1) \cup {Append(h, c) : h \in {g \in Hands(n - 1) : Len(g) = n - 1},
                                          c \in CardPool}

MonsterLists ==
  UNION {[1..n -> {[gone |-> g, innate_damage_amount |-> None] : g \in BOOLEAN}]
           : n \in 0..MaxMonsters}

(***************************************************************************)
(* The specification of legal_choices as a function of the combat state:   *)
(* the state is drawn from the card pool, and the caller asks for the      *)
(* legal choices.                                                          *)
(***************************************************************************)
InitChoices ==
  /\ hitpoints = StartHp
  /\ monsters \in MonsterLists
  /\ allow_random = FALSE
  /\ EngineIdle
  /\ hand \in Hands(MaxHand)
  /\ energy \in Energies
  /\ powers \in PowerLists
  /\ choices = << >>
  /\ NoIngestion
  /\ NoNumeric

CallLegalChoices ==
  /\ choices = << >>
  /\ choices' = legal_choices(hand, energy, powers, monsters)
  /\ UNCHANGED <<hitpoints, monsters, engine, hand, energy, powers, ingestion, numeric>>

NextChoices == CallLegalChoices

SpecChoices == InitChoices /\ [][NextChoices]_vars

(***************************************************************************)
(* Snapshot ingestion, CombatState::from_communication_mod.  A snapshot    *)
(* has no combat_state, or a list of monsters with their move_base_damage. *)
(***************************************************************************)
MoveDamages == {-1, 0, 1, 2}

ObservedMonsters ==
  UNION {[1..n -> {[move_base_damage |-> d, is_gone |-> FALSE] : d \in MoveDamages}]
           : n \in 0..MaxMonsters}

Snapshots ==
  {[combat_state |-> None]}
    \cup {[combat_state |-> Some([monsters |-> ms, current_hp |-> StartHp])]
            : ms \in ObservedMonsters}

innate_damage_of_nonnegative(move_base_damage) ==
  IF move_base_damage >= 0 THEN Some(move_base_damage) ELSE None

\* lines 163-167
innate_damage_of(move_base_damage) ==
  IF move_base_damage > 0 THEN Some(move_base_damage) ELSE None

\* lines 155-181: the Monster built from an observed monster
MonsterFrom(m) ==
  [gone |-> m.is_gone, innate_damage_amount |-> innate_damage_of(m.move_base_damage)]

carry_nothing(previous, result) == result

\* lines 185-198: previous.monsters.iter().zip(&mut result.monsters)
carry_forward(previous, result) ==
  IF previous = None THEN result
  ELSE [i \in 1..Len(result) |->
          IF i <= Len(previous[1]) /\ result[i].innate_damage_amount = None
          THEN [result[i] EXCEPT !.innate_damage_amount =
                                    previous[1][i].innate_damage_amount]
          ELSE result[i]]

\* from_communication_mod(observed, previous): None, or the new combat state
from_communication_mod(obs, previous) ==
  IF obs.combat_state = None THEN None
  ELSE LET combat == obs.combat_state[1] IN
       Some([hitpoints |-> combat.current_hp,
             monsters |-> carry_forward(previous,
                             [i \in 1..Len(combat.monsters) |->
                                MonsterFrom(combat.monsters[i])])])

InitIngest ==
  /\ hitpoints = StartHp
  /\ monsters = << >>
  /\ allow_random = FALSE
  /\ EngineIdle
  /\ NoCards
  /\ have = FALSE
  /\ observed = [combat_state |-> None]
  /\ first = FALSE
  /\ omitted = {}
  /\ NoNumeric

Previous == IF have THEN Some(monsters) ELSE None

\* a snapshot taken in combat is ingested, the last result passed as previous
IngestCombat ==
  \E obs \in Snapshots :
    /\ obs.combat_state # None
    /\ LET r == from_communication_mod(obs, Previous) IN
         /\ monsters' = r[1].monsters
         /\ hitpoints' = r[1].hitpoints
    /\ have' = TRUE
    /\ observed' = obs
    /\ LET ms == obs.combat_state[1].monsters IN
         IF ~first
         THEN /\ first' = TRUE
              /\ omitted' = {<<i, ms[i].move_base_damage>> :
                               i \in {j \in 1..Len(ms) : ms[j].move_base_damage > 0}}
         ELSE /\ first' = first
              /\ omitted' = {p \in omitted :
                               p[1] <= Len(ms) /\ ms[p[1]].move_base_damage <= 0}
    /\ UNCHANGED <<engine, cards, numeric>>

\* a snapshot without combat_state: the result is None
IngestNoCombat ==
  \E obs \in Snapshots :
    /\ from_communication_mod(obs, Previous) = None
    /\ have' = FALSE
    /\ monsters' = << >>
    /\ observed' = obs
    /\ omitted' = {}
    /\ UNCHANGED <<hitpoints, first, engine, cards, numeric>>

NextIngest == IngestCombat \/ IngestNoCombat

SpecIngest == InitIngest /\ [][NextIngest]_vars

(***************************************************************************)
(* Distribution: weights are f64 in the source; here a weight is a whole   *)
(* number of 1/Scale, so that 1.0 is Scale and a probability p/Scale       *)
(* scales a weight w to (w * p) / Scale.                                   *)
(***************************************************************************)
Scale == 4          \* weights and probabilities are counted in 1/Scale
MaxOutcomes == 2    \* outcomes of a distribution given to + or split

OutcomeValues == {1, 2, 3}

\* From<i32> for Distribution
From(value) == << <<Scale, value>> >>

\* Mul<f64> for Distribution
Mul(self, other) ==
  [i \in 1..Len(self) |-> <<(self[i][1] * other) \div Scale, self[i][2]>>]

RECURSIVE add_assign_pushing(_, _, _)
add_assign_pushing(self, other, i) ==
  IF i > Len(other) THEN self
  ELSE add_assign_pushing(Append(self, other[i]), other, i + 1)

RECURSIVE add_assign(_, _, _)
\* AddAssign<Distribution>: the loop over other.0, from its i-th pair on
add_assign(self, other, i) ==
  IF i > Len(other) THEN self
  ELSE LET weight == other[i][1]
           value == other[i][2]
           found == {j \in 1..Len(self) : self[j][2] = value}
       IN IF found # {}
          THEN LET existing == CHOOSE j \in found : \A k \in found : j <= k IN
               add_assign([self EXCEPT ![existing][1] = @ + weight], other, i + 1)
          ELSE add_assign(Append(self, <<weight, value>>), other, i + 1)

\* Add<Distribution>
Add(self, other) == add_assign(self, other, 1)

split_unscaled(p, then_dist, else_dist) == Add(then_dist, else_dist)

\* Distribution::split
split(p, then_dist, else_dist) ==
  Add(Mul(then_dist, p), Mul(else_dist, Scale - p))

RECURSIVE Distributions(_)
\* the distributions of n outcomes at most, values repeated or not
Distributions(n) ==
  IF n = 0 THEN {DistributionNew}
  ELSE Distributions(n - 1)
         \cup {Append(d, <<w, v>>) : d \in {g \in Distributions(n - 1) : Len(g) = n - 1},
                                     w \in {Scale, 2 * Scale}, v \in OutcomeValues}

InitDistributions ==
  /\ hitpoints = StartHp
  /\ monsters = << >>
  /\ allow_random = FALSE
  /\ EngineIdle
  /\ NoCards
  /\ NoIngestion
  /\ NoDamage
  /\ then_value \in Distributions(MaxOutcomes)
  /\ else_value \in Distributions(MaxOutcomes)
  /\ probability \in 0..Scale
  /\ merged = None
  /\ mixed = None

\* then_value + else_value
CallAdd ==
  /\ merged = None
  /\ merged' = Some(Add(then_value, else_value))
  /\ UNCHANGED <<then_value, else_value, probability, mixed>>
  /\ UNCHANGED <<hitpoints, monsters, engine, cards, ingestion, damages>>

\* Distribution::split(probability, then_value, else_value)
CallSplit ==
  /\ mixed = None
  /\ mixed' = Some(split(probability, then_value, else_value))
  /\ UNCHANGED <<then_value, else_value, probability, merged>>
  /\ UNCHANGED <<hitpoints, monsters, engine, cards, ingestion, damages>>

NextDistributions == CallAdd \/ CallSplit

SpecDistributions == InitDistributions /\ [][NextDistributions]_vars

(***************************************************************************)
(* DamageInfo::apply_powers.  The intermediate f64 is modelled as an exact *)
(* fraction <<numerator, denominator>>; `as i32` truncates it toward zero. *)
(* The hooks of the powers live in simulation_state::powers; a few stand   *)
(* for them here: Strength adds its amount to the damage given, Weak       *)
(* scales the damage given by 3/4, Vulnerable scales the damage received   *)
(* by 3/2, Intangible caps the final damage received at 1.                 *)
(***************************************************************************)
MaxBase == 3            \* |base| of a DamageInfo
MaxApplications == 2    \* calls of apply_powers on one DamageInfo

Power(power_id, amount) == [power_id |-> power_id, amount |-> amount]

OwnerPowerLists ==
  {<< >>, <<Power("Strength", 2)>>, <<Power("Strength", -3)>>, <<Power("Weak", 1)>>,
   <<Power("Strength", 2), Power("Weak", 1)>>,
   <<Power("Weak", 1), Power("Strength", 2)>>}

TargetPowerLists ==
  {<< >>, <<Power("Vulnerable", 1)>>, <<Power("Intangible", 1)>>,
   <<Power("Vulnerable", 1), Power("Intangible", 1)>>,
   <<Power("Intangible", 1), Power("Vulnerable", 1)>>}

\* PowerBehavior::at_damage_give
at_damage_give(power, damage) ==
  CASE power.power_id = "Strength" -> <<damage[1] + power.amount * damage[2], damage[2]>>
    [] power.power_id = "Weak" -> <<damage[1] * 3, damage[2] * 4>>
    [] OTHER -> damage

\* PowerBehavior::at_damage_receive
at_damage_receive(power, damage) ==
  CASE power.power_id = "Vulnerable" -> <<damage[1] * 3, damage[2] * 2>>
    [] OTHER -> damage

\* PowerBehavior::at_damage_final_receive
at_damage_final_receive(power, damage) ==
  CASE power.power_id = "Intangible" -> IF damage[1] > damage[2] THEN <<1, 1>> ELSE damage
    [] OTHER -> damage

RECURSIVE power_hook(_, _, _, _)
\* power_hook!: the hook of every power of the creature, in list order
power_hook(hook, ps, damage, i) ==
  IF i > Len(ps) THEN damage
  ELSE power_hook(hook, ps,
                  CASE hook = "give" -> at_damage_give(ps[i], damage)
                    [] hook = "receive" -> at_damage_receive(ps[i], damage)
                    [] OTHER -> at_damage_final_receive(ps[i], damage),
                  i + 1)

\* `damage as i32`: truncation toward zero
as_i32(damage) ==
  IF damage[1] >= 0 THEN damage[1] \div damage[2]
  ELSE -((-damage[1]) \div damage[2])

\* lines 107-124: the output before the floor
powered(inf, owner, target) ==
  LET output == inf.base
      given == power_hook("give", owner, <<output, 1>>, 1)
      received == power_hook("receive", target, given, 1)
      final == power_hook("final", target, received, 1)
  IN as_i32(final)

apply_powers_unfloored(inf, owner, target) ==
  [inf EXCEPT !.output = powered(inf, owner, target)]

\* DamageInfo::apply_powers
apply_powers(inf, owner, target) ==
  LET output == powered(inf, owner, target) IN
  [inf EXCEPT !.output = IF output < 0 THEN 0 ELSE output]

\* DamageInfo::new
DamageInfoNew(base) == [base |-> base, output |-> base]

InitDamage ==
  /\ hitpoints = StartHp
  /\ monsters = << >>
  /\ allow_random = FALSE
  /\ EngineIdle
  /\ NoCards
  /\ NoIngestion
  /\ NoDistributions
  /\ \E base \in (-MaxBase)..MaxBase : info = DamageInfoNew(base)
  /\ owner_powers \in OwnerPowerLists
  /\ target_powers \in TargetPowerLists
  /\ applications = 0

CallApplyPowers ==
  /\ applications < MaxApplications
  /\ info' = apply_powers(info, owner_powers, target_powers)
  /\ applications' = applications + 1
  /\ UNCHANGED <<owner_powers, target_powers>>
  /\ UNCHANGED <<hitpoints, monsters, engine, cards, ingestion, distributions>>

NextDamage == CallApplyPowers

SpecDamage == InitDamage /\ [][NextDamage]_vars

(***************************************************************************)
(* History helpers for the properties of the engine.                       *)
(***************************************************************************)
\* position of instance id in the log, 0 when it was never applied
LogPos(id) ==
  IF \E i \in 1..Len(log) : log[i].id = id
  THEN CHOOSE i \in 1..Len(log) : log[i].id = id
  ELSE 0

\* position of instance id among the instances taken from `actions`
PopPos(id) ==
  IF \E i \in 1..Len(popped) : popped[i].id = id
  THEN CHOOSE i \in 1..Len(popped) : popped[i].id = id
  ELSE 0

InSeq(id, q) == \E i \in 1..Len(q) : q[i] = id

\* id was spawned through action_now by an action that was executing
Subaction(id) == acts[id].parent # 0 /\ acts[id].how = "now"

RECURSIVE SpawnedUnder(_, _)
\* id was spawned, directly or transitively, through action_now while `root`
\* was being resolved
SpawnedUnder(id, root) ==
  /\ Subaction(id)
  /\ \/ acts[id].parent = root
     \/ SpawnedUnder(acts[id].parent, root)

MultiOutcome(k) ==
  LET d == determinism(k, monsters) IN d.tag = "Random" /\ Len(d.dist) >= 2

Over == hitpoints <= 0 \/ Live(monsters) = {}

(***************************************************************************)
(* C1: resolution order.  An action starts before the subactions it        *)
(* spawns; two subactions spawned through action_now by the same action    *)
(* are applied in the order they were spawned, the later one never without *)
(* the earlier one; and a top-level action that run_until_unable takes     *)
(* from `actions` after a top-level action A starts only after every       *)
(* subaction spawned under A has been applied (A, X, Y, B).                *)
(***************************************************************************)
ResolutionOrder ==
  /\ \A j \in 1..Len(log) :
       LET y == log[j].id IN
         /\ acts[y].parent # 0 => LogPos(acts[y].parent) \in 1..(j - 1)
         /\ \A x \in 1..(y - 1) :
              (Subaction(x) /\ Subaction(y) /\ acts[x].parent = acts[y].parent)
                => LogPos(x) \in 1..(j - 1)
  /\ \A a \in 1..Len(popped) : \A b \in (a + 1)..Len(popped) :
       \A x \in 1..Len(acts) :
         SpawnedUnder(x, popped[a].id) => LogPos(x) \in 1..popped[b].at

\* under a top-level action taken from `actions`, an action spawned two
\* subactions that were both deferred and later applied from the stale stack,
\* and a later top-level action has run after them
ResolutionOrderWitness ==
  \E a \in 1..Len(popped) : \E b \in 1..Len(popped) :
    /\ a < b
    /\ LogPos(popped[b].id) # 0
    /\ \E x \in 1..Len(acts) : \E y \in 1..Len(acts) :
         /\ x < y
         /\ acts[x].parent = acts[y].parent
         /\ SpawnedUnder(x, popped[a].id) /\ SpawnedUnder(y, popped[a].id)
         /\ LogPos(x) # 0 /\ LogPos(y) > LogPos(x)
         /\ ~log[LogPos(x)].inline /\ ~log[LogPos(y)].inline
         /\ LogPos(popped[b].id) > LogPos(y)

(***************************************************************************)
(* C2: run_until_unable takes an action from `actions` only when the fresh *)
(* queue and the stale stack are both empty, so every subaction spawned so *)
(* far has been applied before that top-level action starts.               *)
(***************************************************************************)
TopLevelAfterSubactions ==
  \A b \in 1..Len(popped) :
    /\ popped[b].fresh = 0 /\ popped[b].stale = 0
    /\ \A x \in 1..popped[b].made :
         acts[x].how = "now" => LogPos(x) \in 1..popped[b].at

\* a second top-level action was taken after subactions of the first had
\* been deferred and applied from the stale stack
TopLevelAfterSubactionsWitness ==
  /\ Len(popped) >= 2
  /\ \E x \in 1..popped[2].made :
       /\ SpawnedUnder(x, popped[1].id)
       /\ LogPos(x) # 0 /\ ~log[LogPos(x)].inline
  /\ LogPos(popped[2].id) # 0

(***************************************************************************)
(* C3: with allow_random = FALSE a Random action with two or more outcomes *)
(* is not applicable; it is never sampled or applied, action_now defers    *)
(* it, and the pass of run_until_unable that finds it on top of the stale  *)
(* stack returns leaving it there, with nothing applied and the top-level  *)
(* sequence and the combat state untouched.                                *)
(***************************************************************************)
RandomHalts ==
  /\ [](~allow_random =>
         /\ \A k \in Kinds :
              MultiOutcome(k) => ~can_apply(k, hitpoints, monsters, allow_random)
         /\ \A j \in 1..Len(log) :
              ~(~log[j].ar /\ log[j].det.tag = "Random" /\ Len(log[j].det.dist) >= 2))
  /\ [][(~allow_random /\ pc = "action_now" /\ MultiOutcome(acts[arg].kind))
          => /\ fresh_subaction_queue' = Append(fresh_subaction_queue, arg)
             /\ pc' # "apply_impl"
             /\ UNCHANGED <<log, hitpoints, monsters, stale_subaction_stack, actions>>]_vars
  /\ [][(/\ ~allow_random /\ pc = "loop" /\ ~Over
         /\ Pending # << >> /\ MultiOutcome(acts[Last(Pending)].kind))
          => /\ pc' = "idle" /\ ~inLoop'
             /\ stale_subaction_stack' # << >>
             /\ Last(stale_subaction_stack') = Last(Pending)
             /\ Len(stale_subaction_stack')
                  = Len(stale_subaction_stack) + Len(fresh_subaction_queue)
             /\ UNCHANGED <<log, hitpoints, monsters, actions>>]_vars

\* the loop has returned blocked on a two-outcome Random action with another
\* action still queued behind it
RandomHaltsWitness ==
  /\ ~allow_random /\ pc = "idle" /\ ~Over
  /\ popped # << >>
  /\ stale_subaction_stack # << >>
  /\ MultiOutcome(acts[Last(stale_subaction_stack)].kind)
  /\ actions # << >>

(***************************************************************************)
(* C4: can_apply is true exactly when combat is not over and the action is *)
(* Deterministic, or Random with allow_random or exactly one outcome; it   *)
(* is false for a Choice and for every action once combat is over.         *)
(***************************************************************************)
CanApplyExactly ==
  \A k \in Kinds :
    LET d == determinism(k, monsters) IN
      /\ can_apply(k, hitpoints, monsters, allow_random)
           <=> /\ ~Over
               /\ \/ d.tag = "Deterministic"
                  \/ d.tag = "Random" /\ (allow_random \/ Len(d.dist) = 1)
      /\ d.tag = "Choice" => ~can_apply(k, hitpoints, monsters, allow_random)
      /\ Over => ~can_apply(k, hitpoints, monsters, allow_random)

\* combat has ended during a run while a Deterministic action is pending
CanApplyExactlyWitness ==
  /\ Over /\ log # << >>
  /\ \E i \in 1..Len(fresh_subaction_queue) :
       determinism(acts[fresh_subaction_queue[i]].kind, monsters).tag = "Deterministic"

(***************************************************************************)
(* C5: action_now applies the action when the fresh queue is empty and     *)
(* can_apply holds, and only then; otherwise it appends the action to the  *)
(* back of the fresh queue, applies nothing and leaves the combat state,   *)
(* the stale stack and the top-level sequence unchanged.                   *)
(***************************************************************************)
ActionNowContract ==
  [][pc = "action_now" =>
       IF /\ fresh_subaction_queue = << >>
          /\ can_apply(acts[arg].kind, hitpoints, monsters, allow_random)
       THEN /\ pc' = "apply_impl" /\ arg' = arg
            /\ UNCHANGED fresh_subaction_queue
       ELSE /\ pc' # "apply_impl"
            /\ fresh_subaction_queue' = Append(fresh_subaction_queue, arg)
            /\ UNCHANGED <<log, hitpoints, monsters, stale_subaction_stack, actions>>]_vars

\* an applicable action was deferred because the fresh queue was not empty
ActionNowContractWitness ==
  /\ Len(fresh_subaction_queue) >= 2
  /\ ~Over
  /\ can_apply(acts[Last(fresh_subaction_queue)].kind, hitpoints, monsters,
               allow_random)
  /\ pc = "exec"

(***************************************************************************)
(* C7: with allow_random = FALSE the weighted choice of apply_impl never   *)
(* has more than one value to return: every Random action applied had a    *)
(* single-outcome distribution and received that outcome's value, so the   *)
(* resolution is a function of the combat state and the queues.            *)
(***************************************************************************)
ReproducibleWithoutRandom ==
  /\ \A j \in 1..Len(log) :
       (~log[j].ar /\ log[j].det.tag = "Random")
         => /\ Len(log[j].det.dist) = 1
            /\ log[j].value = log[j].det.dist[1][2]
  /\ (~allow_random /\ pc = "apply_impl")
       => Cardinality(Sampled(determinism(acts[arg].kind, monsters).dist)) <= 1

\* a Random action was applied with allow_random = FALSE
ReproducibleWithoutRandomWitness ==
  \E j \in 1..Len(log) :
    /\ ~log[j].ar /\ log[j].det.tag = "Random"
    /\ ~log[j].inline
    /\ j < Len(log)

(***************************************************************************)
(* C6: action_top and action_bottom only insert into `actions`: the new    *)
(* action becomes the front (the one pop_front returns next) or the back   *)
(* of the sequence, nothing is applied, and the fresh queue, the stale     *)
(* stack and the creatures are unchanged.  run_until_unable takes an       *)
(* action inserted by action_top before every action that was in the       *)
(* sequence when it was inserted, and one inserted by action_bottom only   *)
(* after all of them.                                                      *)
(***************************************************************************)
TopAndBottomInsert ==
  /\ [](\A t \in 1..Len(acts) : \A i \in 1..Len(acts[t].ahead) :
          LET q == acts[t].ahead[i] IN
            /\ (acts[t].how = "top" /\ PopPos(q) # 0)
                 => PopPos(t) \in 1..(PopPos(q) - 1)
            /\ (acts[t].how = "bottom" /\ PopPos(t) # 0)
                 => PopPos(q) \in 1..(PopPos(t) - 1))
  /\ [][(Len(acts') = Len(acts) + 1 /\ Last(acts').how # "now")
          => /\ Last(acts').how = "top"
                  => (actions' = <<Len(acts')>> \o actions /\ Head(actions') = Len(acts'))
             /\ Last(acts').how = "bottom"
                  => (actions' = actions \o <<Len(acts')>>)
             /\ pc' = pc
             /\ UNCHANGED <<fresh_subaction_queue, stale_subaction_stack, hitpoints,
                            monsters, log, popped>>]_vars

\* an action inserted by action_top in front of a non-empty sequence has
\* been taken before the actions it overtook, and an action inserted by
\* action_bottom has been taken after the ones ahead of it
TopAndBottomInsertWitness ==
  /\ \E t \in 1..Len(acts) :
       /\ acts[t].how = "top" /\ acts[t].ahead # << >>
       /\ PopPos(t) # 0 /\ PopPos(acts[t].ahead[1]) > PopPos(t)
  /\ \E t \in 1..Len(acts) :
       /\ acts[t].how = "bottom" /\ acts[t].ahead # << >>
       /\ PopPos(t) # 0

(***************************************************************************)
(* C9: combat_over() is true exactly when the player's hitpoints are <= 0  *)
(* or no monster of the collection is left that is not gone (an empty      *)
(* collection included), and false in every other state.                  *)
(***************************************************************************)
CombatOverExactly ==
  /\ combat_over(hitpoints, monsters)
       <=> (hitpoints <= 0 \/ Cardinality(Live(monsters)) = 0)
  /\ (hitpoints > 0 /\ \E i \in 1..Len(monsters) : ~monsters[i].gone)
       => ~combat_over(hitpoints, monsters)
  /\ monsters = << >> => combat_over(hitpoints, monsters)

\* the loop has stopped on a combat that ended with the player alive, one
\* monster gone while the run began with it alive, and work still queued
CombatOverExactlyWitness ==
  /\ pc = "idle" /\ log # << >>
  /\ hitpoints > 0 /\ monsters # << >> /\ Live(monsters) = {}
  /\ actions # << >>

(***************************************************************************)
(* C10: legal_choices() returns EndTurn first and once, and after it       *)
(* exactly one PlayCard entry for every card value in hand that is         *)
(* playable, paired with every monster that is not gone if the card has a  *)
(* target and with target 0 otherwise; value-equal cards in hand yield the *)
(* entries of one card, and no entry of a card that has a target names a   *)
(* gone monster.                                                           *)
(***************************************************************************)
Count(q, e) == Cardinality({i \in 1..Len(q) : q[i] = e})

Offered(c, t) ==
  /\ \E i \in 1..Len(hand) : hand[i] = c
  /\ c.cost = X_COST \/ c.cost >= 0
  /\ energy >= c.cost
  /\ playable(c.id, hand)
  /\ ~(CardInfoOf(c.id).card_type = "Attack" /\ has_power(powers, "Entangled"))
  /\ IF CardInfoOf(c.id).has_target
       THEN (t + 1) \in 1..Len(monsters) /\ ~monsters[t + 1].gone
       ELSE t = 0

LegalChoicesExactly ==
  choices # << >> =>
    /\ choices[1] = EndTurn /\ Count(choices, EndTurn) = 1
    /\ \A i \in 2..Len(choices) :
         /\ choices[i].tag = "PlayCard"
         /\ Offered(choices[i].card, choices[i].target)
         /\ Count(choices, choices[i]) = 1
    /\ \A c \in CardPool : \A t \in 0..Len(monsters) :
         Offered(c, t) => Count(choices, PlayCard(c, t)) = 1

\* C10 as stated: besides the above, no PlayCard entry at all carries the
\* index of a gone monster
NoChoiceNamesGoneMonster ==
  /\ LegalChoicesExactly
  /\ \A i \in 1..Len(choices) :
       choices[i].tag = "PlayCard"
         => ~((choices[i].target + 1) \in 1..Len(monsters)
                /\ monsters[choices[i].target + 1].gone)

\* the hand holds two value-equal playable cards with a target, and one
\* monster is gone while another is not
LegalChoicesExactlyWitness ==
  /\ choices # << >>
  /\ \E i \in 1..Len(hand) : \E j \in 1..Len(hand) :
       /\ i < j /\ hand[i] = hand[j]
       /\ CardInfoOf(hand[i].id).has_target
       /\ Count(choices, PlayCard(hand[i], 1)) = 1
  /\ Len(monsters) = 2 /\ monsters[1].gone /\ ~monsters[2].gone

(***************************************************************************)
(* C8: when each ingestion receives the previous result as `previous`, a   *)
(* monster's innate_damage_amount is the newest snapshot's                 *)
(* move_base_damage if that is positive, and otherwise the value the       *)
(* previous state held at the same position, unchanged; so a value         *)
(* reported by the first snapshot and reported as non-positive by every    *)
(* later one is still there.                                               *)
(***************************************************************************)
InnateDamageCarried ==
  /\ [](\A p \in omitted :
          /\ have /\ p[1] <= Len(monsters)
          /\ monsters[p[1]].innate_damage_amount = <<p[2]>>)
  /\ [][observed'.combat_state # None =>
          /\ Len(monsters') = Len(observed'.combat_state[1].monsters)
          /\ \A i \in 1..Len(monsters') :
               LET d == observed'.combat_state[1].monsters[i].move_base_damage IN
                 monsters'[i].innate_damage_amount =
                   IF d > 0 THEN <<d>>
                   ELSE IF have /\ i <= Len(monsters)
                        THEN monsters[i].innate_damage_amount
                        ELSE << >>]_vars

\* the second monster's damage came with the first snapshot, the newest
\* snapshot reports it as 0 and the cached value differs from the first
\* monster's fresh one
InnateDamageCarriedWitness ==
  /\ first /\ <<2, 2>> \in omitted
  /\ observed.combat_state # None
  /\ observed.combat_state[1].monsters[2].move_base_damage = 0
  /\ observed.combat_state[1].monsters[1].move_base_damage = 1
  /\ monsters[2].innate_damage_amount = <<2>>

(***************************************************************************)
(* C11: a card is playable, and so offered by legal_choices(), only if its *)
(* cost is the variable-cost sentinel -1 or a non-negative integer, the    *)
(* player's energy is at least its cost and its own playability hook       *)
(* agrees; and while the player has the Entangled power no Attack card is  *)
(* playable or offered, whatever its cost and the energy.                  *)
(***************************************************************************)
PlayableOnlyIf(c) ==
  /\ c.cost = X_COST \/ c.cost >= 0
  /\ energy >= c.cost
  /\ playable(c.id, hand)
  /\ has_power(powers, "Entangled") => CardInfoOf(c.id).card_type # "Attack"

CardPlayableOnlyIf ==
  /\ \A c \in CardPool :
       card_playable(c, hand, energy, powers) => PlayableOnlyIf(c)
  /\ \A i \in 1..Len(choices) :
       choices[i].tag = "PlayCard" => PlayableOnlyIf(choices[i].card)

\* the player is Entangled and holds an Attack card the energy would pay for,
\* a card marked unplayable and a Skill card, and only the Skill is offered
CardPlayableOnlyIfWitness ==
  /\ choices = <<EndTurn, PlayCard(Card("Defend", 1), 0)>>
  /\ has_power(powers, "Entangled")
  /\ \E i \in 1..Len(hand) :
       CardInfoOf(hand[i].id).card_type = "Attack" /\ energy >= hand[i].cost
  /\ \E i \in 1..Len(hand) : hand[i].cost = UNPLAYABLE

(***************************************************************************)
(* C12: merging two distributions whose outcome values are each unique     *)
(* (+, and so split) yields a distribution whose outcome values are unique *)
(* again, in which the weight of every value is the sum of the weights it  *)
(* had in the two operands (0 where it was absent), and which holds no     *)
(* value absent from both operands.                                        *)
(***************************************************************************)
Unique(d) == \A i \in 1..Len(d) : \A j \in 1..Len(d) : d[i][2] = d[j][2] => i = j

ValuesOf(d) == {d[i][2] : i \in 1..Len(d)}

RECURSIVE WeightOf(_, _, _)
\* the total weight the pairs of d from position i on give to value v
WeightOf(d, v, i) ==
  IF i > Len(d) THEN 0
  ELSE (IF d[i][2] = v THEN d[i][1] ELSE 0) + WeightOf(d, v, i + 1)

MergedBySum(out, a, b) ==
  /\ Unique(out)
  /\ ValuesOf(out) = ValuesOf(a) \cup ValuesOf(b)
  /\ \A v \in OutcomeValues :
       WeightOf(out, v, 1) = WeightOf(a, v, 1) + WeightOf(b, v, 1)

MergeBySum ==
  (Unique(then_value) /\ Unique(else_value)) =>
    /\ merged # None => MergedBySum(merged[1], then_value, else_value)
    /\ mixed # None =>
         MergedBySum(mixed[1], Mul(then_value, probability),
                     Mul(else_value, Scale - probability))

\* two operands of two unique values each, sharing one value and each
\* holding a value the other lacks, have been merged and split
MergeBySumWitness ==
  /\ merged # None /\ mixed # None
  /\ Len(then_value) = 2 /\ Len(else_value) = 2
  /\ Unique(then_value) /\ Unique(else_value)
  /\ Cardinality(ValuesOf(then_value) \cap ValuesOf(else_value)) = 1
  /\ Len(merged[1]) = 3
  /\ probability \in 1..(Scale - 1)

(***************************************************************************)
(* C13: the weights of split(p, a, b) sum to p times the weight total of a *)
(* plus (1 - p) times the weight total of b.                               *)
(***************************************************************************)
RECURSIVE Total(_, _)
\* the sum of the weights of d from position i on
Total(d, i) == IF i > Len(d) THEN 0 ELSE d[i][1] + Total(d, i + 1)

SplitTotal ==
  mixed # None =>
    Total(mixed[1], 1) * Scale
      = probability * Total(then_value, 1)
          + (Scale - probability) * Total(else_value, 1)

\* C13 as stated: the weights of split(p, a, b) sum to the weight total of a
\* plus the weight total of b
SplitTotalIsSumOfTotals ==
  mixed # None =>
    Total(mixed[1], 1) = Total(then_value, 1) + Total(else_value, 1)

\* a split with a probability strictly between 0 and 1 of two distributions
\* of different, non-zero weight totals that share a value
SplitTotalWitness ==
  /\ mixed # None
  /\ probability \in 1..(Scale - 1)
  /\ Total(then_value, 1) = 3 * Scale /\ Total(else_value, 1) = Scale
  /\ ValuesOf(then_value) \cap ValuesOf(else_value) # {}
  /\ Total(mixed[1], 1) * Scale = probability * 3 * Scale + (Scale - probability) * Scale

(***************************************************************************)
(* C14: after apply_powers the output is >= 0 for every base, negative     *)
(* ones included, and every combination of give, receive and final-receive *)
(* hooks; the output is computed from base, so a second call on the same   *)
(* state leaves the output of the first.                                   *)
(***************************************************************************)
ApplyPowersFloor ==
  /\ [](applications >= 1 =>
          /\ info.output >= 0
          /\ info.output >= powered(info, owner_powers, target_powers)
          /\ info.output \in {0, powered(info, owner_powers, target_powers)})
  /\ [][applications >= 1 => info' = info]_vars
  /\ [][info'.base = info.base]_vars

\* apply_powers has been called twice on a negative base that the owner's
\* Strength and Weak and the target's Vulnerable left negative
ApplyPowersFloorWitness ==
  /\ applications = 2
  /\ info.base < 0
  /\ Len(owner_powers) = 2 /\ target_powers = <<Power("Vulnerable", 1)>>
  /\ powered(info, owner_powers, target_powers) < 0
  /\ info.output = 0

(***************************************************************************)
(* C15: an action whose determinism is Choice never reaches apply_impl:    *)
(* apply_impl is never entered with it, it is never applied and never the  *)
(* cause of an abort; it is only deferred by action_now and stays pending  *)
(* in the queues.                                                          *)
(***************************************************************************)
IsChoice(id) == determinism(acts[id].kind, monsters).tag = "Choice"

ChoiceNeverApplied ==
  /\ pc \in {"apply_impl", "panic"} => ~IsChoice(arg)
  /\ \A j \in 1..Len(log) : log[j].det.tag # "Choice"
  /\ \A id \in 1..Len(acts) :
       IsChoice(id) =>
         /\ LogPos(id) = 0
         /\ \/ pc = "action_now" /\ arg = id
            \/ InSeq(id, fresh_subaction_queue)
            \/ InSeq(id, stale_subaction_stack)
            \/ InSeq(id, actions)

\* after other actions were applied, run_until_unable has returned with a
\* Choice action pending on top of the stale stack while combat continues
ChoiceNeverAppliedWitness ==
  /\ pc = "idle" /\ ~Over /\ log # << >>
  /\ stale_subaction_stack # << >>
  /\ IsChoice(Last(stale_subaction_stack))

(***************************************************************************)
(* C16: once combat is over no action starts executing: nothing is applied *)
(* from a combat-over state, action_now called in such a state defers the  *)
(* action to the fresh queue, and a pass of run_until_unable that begins   *)
(* in such a state returns at once, the queues and the combat state left   *)
(* as they were.                                                           *)
(***************************************************************************)
NoStartOnceOver ==
  /\ [][Over => log' = log]_vars
  /\ [](Over => pc # "apply_impl")
  /\ [][(pc = "action_now" /\ Over)
          => /\ fresh_subaction_queue' = Append(fresh_subaction_queue, arg)
             /\ pc' # "apply_impl"
             /\ UNCHANGED <<log, hitpoints, monsters, stale_subaction_stack, actions>>]_vars
  /\ [][(pc = "loop" /\ Over)
          => /\ pc' = "idle" /\ ~inLoop'
             /\ UNCHANGED <<log, hitpoints, monsters, fresh_subaction_queue,
                            stale_subaction_stack, actions, acts>>]_vars

\* the action that made the last monster gone went on to spawn a subaction,
\* which was deferred; run_until_unable has returned with it and a top-level
\* action still queued
NoStartOnceOverWitness ==
  /\ pc = "idle" /\ popped # << >>
  /\ hitpoints > 0 /\ Over
  /\ actions # << >>
  /\ \E i \in 1..Len(fresh_subaction_queue) :
       LET id == fresh_subaction_queue[i] IN
         /\ acts[id].parent # 0
         /\ LogPos(acts[id].parent) = Len(log)
         /\ can_apply_impl(acts[id].kind, monsters, allow_random)

(***************************************************************************)
(* C17: every call of run_until_unable comes to an end.  Control leaves    *)
(* the loop (to the caller, or by an abort of apply_impl); the loop        *)
(* returns only when combat is over, or on a pending action that cannot be *)
(* applied, or with the three queues empty; and a pass that finds the      *)
(* pending action not applicable returns instead of examining it again.    *)
(***************************************************************************)
Blocked ==
  /\ stale_subaction_stack # << >>
  /\ ~can_apply(acts[Last(stale_subaction_stack)].kind, hitpoints, monsters,
                allow_random)

AllEmpty ==
  /\ fresh_subaction_queue = << >>
  /\ stale_subaction_stack = << >>
  /\ actions = << >>

RunUntilUnableReturns ==
  /\ [](inLoop => <>(~inLoop \/ pc = "panic"))
  /\ [][(inLoop /\ ~inLoop') => (pc' = "idle" /\ (Over \/ Blocked \/ AllEmpty)')]_vars
  /\ [][(/\ pc = "loop" /\ ~Over /\ Pending # << >>
         /\ ~can_apply(acts[Last(Pending)].kind, hitpoints, monsters, allow_random))
          => (pc' = "idle" /\ ~inLoop')]_vars

\* run_until_unable has returned with the queues empty after a run in which
\* subactions were deferred, applied from the stale stack and spawned further
\* subactions, three levels deep
RunUntilUnableReturnsWitness ==
  /\ pc = "idle" /\ ~inLoop /\ ~Over /\ AllEmpty
  /\ Len(popped) >= 2
  /\ \E x \in 1..Len(acts) :
       /\ Subaction(x) /\ Subaction(acts[x].parent)
       /\ LogPos(x) # 0 /\ ~log[LogPos(x)].inline

(***************************************************************************)
(* C18: when run_until_unable returns while combat is not over, the fresh  *)
(* queue is empty and exactly one of these holds: the stale stack is not   *)
(* empty and its top action is not applicable, or the stale stack and      *)
(* `actions` are both empty.  It never returns leaving an applicable       *)
(* action pending.                                                         *)
(***************************************************************************)
NothingPending == stale_subaction_stack = << >> /\ actions = << >>

ReturnsOnlyWhenUnable ==
  [][(inLoop /\ ~inLoop' /\ pc' = "idle" /\ ~Over')
       => /\ fresh_subaction_queue' = << >>
          /\ Blocked' # NothingPending'
          /\ Blocked' \/ NothingPending'
          /\ stale_subaction_stack' # << >> => Blocked'
          /\ stale_subaction_stack' = << >> => actions' = << >>]_vars

\* run_until_unable has returned, combat not over, blocked on a subaction
\* of an action it applied, with a top-level action waiting
ReturnsOnlyWhenUnableWitness ==
  /\ pc = "idle" /\ ~Over /\ popped # << >>
  /\ fresh_subaction_queue = << >>
  /\ Blocked
  /\ Subaction(Last(stale_subaction_stack))
  /\ LogPos(acts[Last(stale_subaction_stack)].parent) # 0
  /\ actions # << >>

(***************************************************************************)
(* C19: no action is lost or duplicated.  Every action handed to the       *)
(* engine has been applied exactly once, or is held exactly once in        *)
(* exactly one of the fresh queue, the stale stack and `actions` (or is    *)
(* the one action_now is deciding on); between calls every action is       *)
(* applied or queued.  When the loop is invoked with the blocked action on *)
(* the stale stack, that action is the first one examined if the fresh     *)
(* queue is empty; otherwise the action deferred first since is.           *)
(***************************************************************************)
Holdings(id) ==
  Cardinality({j \in 1..Len(log) : log[j].id = id})
    + Count(fresh_subaction_queue, id)
    + Count(stale_subaction_stack, id)
    + Count(actions, id)
    + (IF arg = id THEN 1 ELSE 0)

Conserved ==
  /\ \A id \in 1..Len(acts) : Holdings(id) = 1
  /\ pc = "idle" => arg = 0
  /\ \A j \in 1..Len(log) : log[j].id \in 1..Len(acts)
  /\ \A q \in {fresh_subaction_queue, stale_subaction_stack, actions} :
       \A i \in 1..Len(q) : q[i] \in 1..Len(acts)

NothingLostOrDuplicated ==
  /\ Conserved
  /\ (pc \in {"idle", "loop"} /\ ~Over /\ stale_subaction_stack # << >>)
       => Last(Pending) = IF fresh_subaction_queue = << >>
                            THEN Last(stale_subaction_stack)
                            ELSE fresh_subaction_queue[1]

\* C19 as stated: whatever was called in between, the action that blocked
\* the loop is the first one examined when the loop is invoked again
BlockedActionExaminedFirst ==
  /\ Conserved
  /\ (pc \in {"idle", "loop"} /\ ~Over /\ stale_subaction_stack # << >>)
       => Last(Pending) = Last(stale_subaction_stack)

\* the loop has been invoked again on the action that blocked it, after
\* other actions were applied and with a top-level action waiting
NothingLostOrDuplicatedWitness ==
  /\ pc = "loop" /\ ~Over /\ log # << >>
  /\ fresh_subaction_queue = << >>
  /\ Blocked
  /\ Last(Pending) = Last(stale_subaction_stack)
  /\ actions # << >>

(***************************************************************************)
(* C20: whenever can_apply admitted an action, applying it in the same     *)
(* state selects its outcome without aborting: apply_impl is entered only  *)
(* with a Deterministic action or a Random action whose distribution the   *)
(* weighted choice can sample, every value passed to execute_random is an  *)
(* outcome of the distribution, and no abort is ever reached, also for a   *)
(* distribution with no outcomes or with zero-weight outcomes only.        *)
(***************************************************************************)
ApplyNeverAborts ==
  /\ pc # "panic"
  /\ pc = "apply_impl" =>
       LET d == determinism(acts[arg].kind, monsters) IN
         /\ can_apply(acts[arg].kind, hitpoints, monsters, allow_random)
         /\ \/ d.tag = "Deterministic"
            \/ d.tag = "Random" /\ Sampled(d.dist) # {}
  /\ \A j \in 1..Len(log) :
       log[j].det.tag = "Random" =>
         \E i \in 1..Len(log[j].det.dist) : log[j].det.dist[i][2] = log[j].value

=============================================================================
